---- MODULE Spec2Model ----
(***************************************************************************)
(* Antibody lineage kinetics of Eradication/MalariaAntibody.cpp.           *)
(*                                                                         *)
(* Number model.  m_antibody_capacity and m_antibody_concentration are     *)
(* C++ floats: binary fractions of finite precision.  They are held here   *)
(* as integers counting units of 1/SCALE, SCALE = 2^FracBits, and every    *)
(* assignment statement of the source is evaluated exactly and rounded     *)
(* once to the nearest unit (Round).  Like a float, such a value can be    *)
(* exactly 0, 1, 1/2 or 1/4, and can never be exactly 0.4, 0.3 or 1e-7,    *)
(* the decimal double constants the source compares it with.  dt and the   *)
(* configuration parameters are small exact fractions [n, d].              *)
(***************************************************************************)
EXTENDS Integers, Sequences, FiniteSets, TLC

\* ------------------------------------------------------------- bounds
FracBits == 4
MaxCount == 2

SCALE == 2^FracBits

\* ------------------------------------------------------- exact fractions
Q(n, d) == [n |-> n, d |-> d]

QMul(a, b) == Q(a.n * b.n, a.d * b.d)

QAdd(a, b) == Q(a.n * b.d + b.n * a.d, a.d * b.d)

QDiv(a, b) == Q(a.n * b.d, a.d * b.n)

QLe(a, b) == a.n * b.d <= b.n * a.d

\* nearest integer to n/d (d > 0), halves upward
Round(n, d) == (2 * n + d) \div (2 * d)

\* the float nearest to  v + w * q   (v, w in units, q a fraction)
AddScaled(v, w, q) == Round(v * q.d + w * q.n, q.d)

\* v (in units) > q, the float-to-double comparison of the source
\* (an integer exceeds a fraction exactly when it exceeds its floor)
GtQ(v, q) == v > (q.n * SCALE) \div q.d

\* --------------------------------------------------- program constants
NON_TRIVIAL_ANTIBODY_THRESHOLD == Q(1, 10000000)

TWENTY_DAY_DECAY_CONSTANT == Q(5, 100)

B_CELL_PROLIFERATION_THRESHOLD == Q(4, 10)

B_CELL_PROLIFERATION_CONSTANT == Q(33, 100)

ANTIBODY_RELEASE_THRESHOLD == Q(3, 10)

ANTIBODY_RELEASE_FACTOR == 4

\* MalariaAntibodyType::Enum
Types == {"CSP", "MSP1", "PfEMP1_minor", "PfEMP1_major"}

\* ------------------------------------------------------------- inputs
\* SusceptibilityMalariaConfig.  All parameters are non-negative and
\* antibody_stimulation_c50 > 0.  memory_level is a float and is held in
\* units like the capacity.
Moderate ==
  [ memory_level                 |-> SCALE \div 4,
    hyperimmune_decay_rate       |-> Q(1, 50),
    antibody_csp_decay_days      |-> Q(90, 1),
    MSP1_antibody_growthrate     |-> Q(1, 4),
    antibody_stimulation_c50     |-> Q(1, 1),
    minimum_adapted_response     |-> Q(1, 50),
    non_specific_growth          |-> Q(1, 2),
    antibody_capacity_growthrate |-> Q(1, 2) ]

\* capacity relaxes to memory_level faster than concentration decays
FastMemoryDecay ==
  [ Moderate EXCEPT !.hyperimmune_decay_rate  = Q(1, 2),
                    !.antibody_csp_decay_days = Q(10, 1) ]

\* growth rates above 1
FastGrowth ==
  [ memory_level                 |-> SCALE \div 4,
    hyperimmune_decay_rate       |-> Q(1, 2),
    antibody_csp_decay_days      |-> Q(10, 1),
    MSP1_antibody_growthrate     |-> Q(4, 1),
    antibody_stimulation_c50     |-> Q(1, 4),
    minimum_adapted_response     |-> Q(1, 1),
    non_specific_growth          |-> Q(2, 1),
    antibody_capacity_growthrate |-> Q(2, 1) ]

DtSet == { Q(0, 1), Q(1, 1), Q(5, 1) }

\* the timestep of a host that advances its lineages day by day
Timestep == { Q(1, 1) }

InvBloodSet == { Q(1, 1) }

GrowthRateSet == { Q(1, 10), Q(2, 1) }

AntigenArgs == { -5, 0, 1, 2 }

Variants == { 0, 1 }

\* capacities and concentrations handed to CreateAntibody and the setters
CapacityArgs == { 0, SCALE \div 4, SCALE \div 2, SCALE }

ConcentrationArgs == { 0, SCALE \div 2, (3 * SCALE) \div 2 }

\* every capacity from -1/4 to 5/4, concentrations from -1/4 to 3/2 by eighths
CapacityGrid == (-(SCALE \div 4)) .. ((5 * SCALE) \div 4)

ConcentrationGrid == { (i * SCALE) \div 8 : i \in -2 .. 12 }

\* --------------------------------------------------------------- state
VARIABLES
  ab,       \* the lineage: the six fields of MalariaAntibody
  params,   \* the SusceptibilityMalariaConfig in force
  pre,      \* the lineage before the last call
  call,     \* the last call: [op, dt, q, n]
  sum,      \* positive antigen counts passed in since the last ResetCounters
  cleared,  \* SetAntigenicPresence(false) came after the last recorded count
  pc,       \* position in the host's update cycle
  ar,       \* the record or archive written by the last export
  copy      \* the lineage filled by the last import

vars == << ab, params, pre, call, sum, cleared, pc, ar, copy >>

\* MalariaAntibody::MalariaAntibody then Initialize
Initialize(type, variant, capacity, concentration) ==
  [ m_antibody_type          |-> type,
    m_antibody_variant       |-> variant,
    m_antibody_capacity      |-> capacity,
    m_antibody_concentration |-> concentration,
    m_antigen_count          |-> 0,
    m_antigen_present        |-> FALSE ]

\* X::CreateAntibody( variant, capacity ): concentration defaults to 0
CreateAntibody(type, variant, capacity) == Initialize(type, variant, capacity, 0)

\* ------------------------------------------------------------ kinetics
\* faulty variant: capacity relaxes to memory_level from below as well
BaseDecay_NoMemoryGuard(a, dt, p) ==
  LET c == a.m_antibody_concentration
      k == a.m_antibody_capacity
  IN  [ a EXCEPT
          !.m_antibody_concentration =
             IF GtQ(c, NON_TRIVIAL_ANTIBODY_THRESHOLD)
             THEN AddScaled(c, -c, QMul(TWENTY_DAY_DECAY_CONSTANT, dt))
             ELSE c,
          !.m_antibody_capacity =
             AddScaled(k, -(k - p.memory_level), QMul(p.hyperimmune_decay_rate, dt)) ]

BaseDecay(a, dt, p) ==
  LET c == a.m_antibody_concentration
      k == a.m_antibody_capacity
  IN  [ a EXCEPT
          !.m_antibody_concentration =
             IF GtQ(c, NON_TRIVIAL_ANTIBODY_THRESHOLD)
             THEN AddScaled(c, -c, QMul(TWENTY_DAY_DECAY_CONSTANT, dt))
             ELSE c,
          !.m_antibody_capacity =
             IF k > p.memory_level
             THEN AddScaled(k, -(k - p.memory_level), QMul(p.hyperimmune_decay_rate, dt))
             ELSE k ]

\* faulty variant: the CSP override of Decay is missing
CSPDecay_NoOverride(a, dt, p) ==
  LET c == a.m_antibody_concentration
      k == a.m_antibody_capacity
  IN  [ a EXCEPT
          !.m_antibody_concentration =
             IF GtQ(c, NON_TRIVIAL_ANTIBODY_THRESHOLD)
             THEN AddScaled(c, -c, QMul(TWENTY_DAY_DECAY_CONSTANT, dt))
             ELSE c,
          !.m_antibody_capacity =
             IF k > p.memory_level
             THEN AddScaled(k, -(k - p.memory_level), QMul(p.hyperimmune_decay_rate, dt))
             ELSE k ]

CSPDecay(a, dt, p) ==
  LET c == a.m_antibody_concentration
  IN  IF c > a.m_antibody_capacity
      THEN [ a EXCEPT !.m_antibody_concentration =
                        AddScaled(c, -c, QDiv(dt, p.antibody_csp_decay_days)) ]
      ELSE BaseDecay(a, dt, p)

\* Sigmoid::basic_sigmoid( threshold, variable ) = variable / (variable + threshold)
basic_sigmoid(threshold, variable) == QDiv(variable, QAdd(variable, threshold))

Clamp1(k) == IF k > SCALE THEN SCALE ELSE k

\* faulty variant: the final clamp to 1.0 is missing
BaseUpdateAntibodyCapacity_NoClamp(a, dt, p, inv_uL_blood) ==
  LET growth_rate == p.MSP1_antibody_growthrate
      threshold   == p.antibody_stimulation_c50
      k0 == a.m_antibody_capacity
      k1 == AddScaled(k0, SCALE - k0,
                      QMul(growth_rate,
                           basic_sigmoid(threshold, QMul(Q(a.m_antigen_count, 1), inv_uL_blood))))
      k2 == IF GtQ(k1, B_CELL_PROLIFERATION_THRESHOLD)
            THEN AddScaled(k1, SCALE - k1, QMul(B_CELL_PROLIFERATION_CONSTANT, dt))
            ELSE k1
  IN  [ a EXCEPT !.m_antibody_capacity = k2 ]

BaseUpdateAntibodyCapacity(a, dt, p, inv_uL_blood) ==
  LET growth_rate == p.MSP1_antibody_growthrate
      threshold   == p.antibody_stimulation_c50
      k0 == a.m_antibody_capacity
      k1 == AddScaled(k0, SCALE - k0,
                      QMul(growth_rate,
                           basic_sigmoid(threshold, QMul(Q(a.m_antigen_count, 1), inv_uL_blood))))
      k2 == IF GtQ(k1, B_CELL_PROLIFERATION_THRESHOLD)
            THEN AddScaled(k1, SCALE - k1, QMul(B_CELL_PROLIFERATION_CONSTANT, dt))
            ELSE k1
  IN  [ a EXCEPT !.m_antibody_capacity = Clamp1(k2) ]

UpdateAntibodyCapacity2(a, dt, growth_rate) ==
  LET k0 == a.m_antibody_capacity
  IN  [ a EXCEPT !.m_antibody_capacity =
                   Clamp1(AddScaled(k0, SCALE - k0, QMul(growth_rate, dt))) ]

\* faulty variant: the base law's shape, where the proliferation term follows
\* the sigmoid term in the same call
MinorUpdateAntibodyCapacity_BothTerms(a, dt, p, inv_uL_blood) ==
  LET min_stimulation == QMul(p.antibody_stimulation_c50, p.minimum_adapted_response)
      growth_rate     == QMul(p.antibody_capacity_growthrate, p.non_specific_growth)
      threshold       == p.antibody_stimulation_c50
      k0 == a.m_antibody_capacity
      k1 == AddScaled(k0, SCALE - k0,
                      QMul(QMul(growth_rate, dt),
                           basic_sigmoid(threshold,
                                         QAdd(QMul(Q(a.m_antigen_count, 1), inv_uL_blood),
                                              min_stimulation))))
      k2 == IF GtQ(k1, B_CELL_PROLIFERATION_THRESHOLD)
            THEN AddScaled(k1, SCALE - k1, QMul(B_CELL_PROLIFERATION_CONSTANT, dt))
            ELSE k1
  IN  [ a EXCEPT !.m_antibody_capacity = Clamp1(k2) ]

MinorUpdateAntibodyCapacity(a, dt, p, inv_uL_blood) ==
  LET min_stimulation == QMul(p.antibody_stimulation_c50, p.minimum_adapted_response)
      growth_rate     == QMul(p.antibody_capacity_growthrate, p.non_specific_growth)
      threshold       == p.antibody_stimulation_c50
      k0 == a.m_antibody_capacity
      k1 == IF ~GtQ(k0, B_CELL_PROLIFERATION_THRESHOLD)
            THEN AddScaled(k0, SCALE - k0,
                           QMul(QMul(growth_rate, dt),
                                basic_sigmoid(threshold,
                                              QAdd(QMul(Q(a.m_antigen_count, 1), inv_uL_blood),
                                                   min_stimulation))))
            ELSE AddScaled(k0, SCALE - k0, QMul(B_CELL_PROLIFERATION_CONSTANT, dt))
  IN  [ a EXCEPT !.m_antibody_capacity = Clamp1(k1) ]

\* faulty variant: the clamp follows both branches, as in the Minor variant
MajorUpdateAntibodyCapacity_ClampBoth(a, dt, p, inv_uL_blood) ==
  LET min_stimulation == QMul(p.antibody_stimulation_c50, p.minimum_adapted_response)
      growth_rate     == p.antibody_capacity_growthrate
      threshold       == p.antibody_stimulation_c50
      k0 == a.m_antibody_capacity
      k1 == IF ~GtQ(k0, B_CELL_PROLIFERATION_THRESHOLD)
            THEN AddScaled(k0, SCALE - k0,
                           QMul(QMul(growth_rate, dt),
                                basic_sigmoid(threshold,
                                              QAdd(QMul(Q(a.m_antigen_count, 1), inv_uL_blood),
                                                   min_stimulation))))
            ELSE AddScaled(k0, SCALE - k0, QMul(B_CELL_PROLIFERATION_CONSTANT, dt))
  IN  [ a EXCEPT !.m_antibody_capacity = Clamp1(k1) ]

MajorUpdateAntibodyCapacity(a, dt, p, inv_uL_blood) ==
  LET min_stimulation == QMul(p.antibody_stimulation_c50, p.minimum_adapted_response)
      growth_rate     == p.antibody_capacity_growthrate
      threshold       == p.antibody_stimulation_c50
      k0 == a.m_antibody_capacity
  IN  [ a EXCEPT !.m_antibody_capacity =
          IF ~GtQ(k0, B_CELL_PROLIFERATION_THRESHOLD)
          THEN Clamp1(AddScaled(k0, SCALE - k0,
                                QMul(QMul(growth_rate, dt),
                                     basic_sigmoid(threshold,
                                                   QAdd(QMul(Q(a.m_antigen_count, 1), inv_uL_blood),
                                                        min_stimulation)))))
          ELSE AddScaled(k0, SCALE - k0, QMul(B_CELL_PROLIFERATION_CONSTANT, dt)) ]

\* faulty variant: the clamp to capacity is missing
BaseUpdateAntibodyConcentration_NoClamp(a, dt, p) ==
  LET k  == a.m_antibody_capacity
      c0 == a.m_antibody_concentration
  IN  [ a EXCEPT !.m_antibody_concentration =
          IF GtQ(k, ANTIBODY_RELEASE_THRESHOLD)
          THEN AddScaled(c0, k - c0, QMul(Q(ANTIBODY_RELEASE_FACTOR, 1), dt))
          ELSE c0 ]

\* faulty variant: concentration is clamped to 1.0, like the capacity
BaseUpdateAntibodyConcentration_ClampAtOne(a, dt, p) ==
  LET k  == a.m_antibody_capacity
      c0 == a.m_antibody_concentration
      c1 == IF GtQ(k, ANTIBODY_RELEASE_THRESHOLD)
            THEN AddScaled(c0, k - c0, QMul(Q(ANTIBODY_RELEASE_FACTOR, 1), dt))
            ELSE c0
  IN  [ a EXCEPT !.m_antibody_concentration = Clamp1(c1) ]

BaseUpdateAntibodyConcentration(a, dt, p) ==
  LET k  == a.m_antibody_capacity
      c0 == a.m_antibody_concentration
      c1 == IF GtQ(k, ANTIBODY_RELEASE_THRESHOLD)
            THEN AddScaled(c0, k - c0, QMul(Q(ANTIBODY_RELEASE_FACTOR, 1), dt))
            ELSE c0
  IN  [ a EXCEPT !.m_antibody_concentration = IF c1 > k THEN k ELSE c1 ]

CSPUpdateAntibodyConcentration(a, dt, p) ==
  LET c == a.m_antibody_concentration
  IN  IF c > a.m_antibody_capacity
      THEN [ a EXCEPT !.m_antibody_concentration =
                        AddScaled(c, -c, QDiv(dt, p.antibody_csp_decay_days)) ]
      ELSE BaseUpdateAntibodyConcentration(a, dt, p)

\* virtual dispatch on the concrete class
DecayOf(a, dt, p) ==
  IF a.m_antibody_type = "CSP" THEN CSPDecay(a, dt, p) ELSE BaseDecay(a, dt, p)

UpdateAntibodyCapacityOf(a, dt, p, inv_uL_blood) ==
  CASE a.m_antibody_type = "PfEMP1_minor" -> MinorUpdateAntibodyCapacity(a, dt, p, inv_uL_blood)
    [] a.m_antibody_type = "PfEMP1_major" -> MajorUpdateAntibodyCapacity(a, dt, p, inv_uL_blood)
    [] OTHER -> BaseUpdateAntibodyCapacity(a, dt, p, inv_uL_blood)

UpdateAntibodyConcentrationOf(a, dt, p) ==
  IF a.m_antibody_type = "CSP"
  THEN CSPUpdateAntibodyConcentration(a, dt, p)
  ELSE BaseUpdateAntibodyConcentration(a, dt, p)

\* ------------------------------------------------- antigen bookkeeping
ResetCountersOf(a) ==
  [ a EXCEPT !.m_antigen_present = FALSE, !.m_antigen_count = 0 ]

\* faulty variant: the test antigenCount > 0 is missing
IncreaseAntigenCountOf_Unguarded(a, antigenCount) ==
  [ a EXCEPT !.m_antigen_count = @ + antigenCount, !.m_antigen_present = TRUE ]

\* faulty variant: the count is added and the presence flag is not raised
IncreaseAntigenCountOf_NoFlag(a, antigenCount) ==
  IF antigenCount > 0
  THEN [ a EXCEPT !.m_antigen_count = @ + antigenCount ]
  ELSE a

IncreaseAntigenCountOf(a, antigenCount) ==
  IF antigenCount > 0
  THEN [ a EXCEPT !.m_antigen_count = @ + antigenCount, !.m_antigen_present = TRUE ]
  ELSE a

SetAntigenicPresenceOf(a, antigenPresent) ==
  [ a EXCEPT !.m_antigen_present = antigenPresent ]

\* ------------------------------------------------------- serialization
\* (int) m_antibody_type
TypeCode(t) == CASE t = "CSP" -> 0 [] t = "MSP1" -> 1 [] t = "PfEMP1_minor" -> 2 [] OTHER -> 3

JSerialize(a) ==
  [ kind |-> "json",
    m_antibody_capacity      |-> a.m_antibody_capacity,
    m_antibody_concentration |-> a.m_antibody_concentration,
    m_antigen_count          |-> a.m_antigen_count,
    m_antigen_present        |-> a.m_antigen_present,
    m_antibody_type          |-> TypeCode(a.m_antibody_type),
    m_antibody_variant       |-> a.m_antibody_variant ]

\* the body is compiled out (#if 0): the lineage is left as it was
JDeserialize(a, root) == a

\* serialize( Archive&, MalariaAntibody&, v ) on a saving archive
BoostSave(a) ==
  [ kind |-> "boost",
    data |-> << a.m_antibody_capacity, a.m_antibody_concentration, a.m_antigen_count,
                a.m_antigen_present, a.m_antibody_type, a.m_antibody_variant >> ]

\* serialize( Archive&, MalariaAntibody&, v ) on a loading archive
BoostLoad(a, archive) ==
  [ a EXCEPT !.m_antibody_capacity      = archive.data[1],
             !.m_antibody_concentration = archive.data[2],
             !.m_antigen_count          = archive.data[3],
             !.m_antigen_present        = archive.data[4],
             !.m_antibody_type          = archive.data[5],
             !.m_antibody_variant       = archive.data[6] ]

\* a lineage fresh from MalariaAntibody::MalariaAntibody(): the counters are
\* initialised, the other four members hold whatever the allocation held
FreshLineages ==
  { [ Initialize(t, v, k, c) EXCEPT !.m_antigen_count = 0 ] :
      t \in Types, v \in Variants, k \in {0, SCALE}, c \in {0, SCALE} }

\* ------------------------------------------------------------- actions
NoQ == Q(0, 1)

NoArchive == [ kind |-> "none" ]

\* what every call records; the counters' history follows the arguments
Record(op, dt, q, n, result) ==
  /\ ab' = result
  /\ pre' = ab
  /\ call' = [ op |-> op, dt |-> dt, q |-> q, n |-> n ]
  /\ params' = params
  /\ sum' = IF op = "ResetCounters" THEN 0
            ELSE IF op = "IncreaseAntigenCount" /\ n > 0 THEN sum + n
            ELSE sum
  /\ cleared' = IF op = "SetAntigenicPresence" THEN n = 0
                ELSE IF op = "ResetCounters" \/ (op = "IncreaseAntigenCount" /\ n > 0) THEN FALSE
                ELSE cleared

Free == UNCHANGED << pc, ar, copy >>

DecayWith(dts) ==
  \E dt \in dts :
    Record("Decay", dt, NoQ, 0, DecayOf(ab, dt, params)) /\ Free

UpdateAntibodyCapacityWith(dts) ==
  \E dt \in dts, inv_uL_blood \in InvBloodSet :
    Record("UpdateAntibodyCapacity", dt, inv_uL_blood, 0,
           UpdateAntibodyCapacityOf(ab, dt, params, inv_uL_blood)) /\ Free

UpdateAntibodyCapacityRateWith(dts) ==
  \E dt \in dts, growth_rate \in GrowthRateSet :
    Record("UpdateAntibodyCapacityRate", dt, growth_rate, 0,
           UpdateAntibodyCapacity2(ab, dt, growth_rate)) /\ Free

UpdateAntibodyConcentrationWith(dts) ==
  \E dt \in dts :
    Record("UpdateAntibodyConcentration", dt, NoQ, 0,
           UpdateAntibodyConcentrationOf(ab, dt, params)) /\ Free

Decay == DecayWith(Timestep)

UpdateAntibodyCapacity == UpdateAntibodyCapacityWith(Timestep)

UpdateAntibodyCapacityRate == UpdateAntibodyCapacityRateWith(Timestep)

UpdateAntibodyConcentration == UpdateAntibodyConcentrationWith(Timestep)

ResetCounters ==
  Record("ResetCounters", NoQ, NoQ, 0, ResetCountersOf(ab)) /\ Free

IncreaseAntigenCount ==
  \E n \in AntigenArgs :
    /\ ab.m_antigen_count + n <= MaxCount
    /\ Record("IncreaseAntigenCount", NoQ, NoQ, n, IncreaseAntigenCountOf(ab, n))
    /\ Free

SetAntigenicPresence ==
  \E b \in BOOLEAN :
    Record("SetAntigenicPresence", NoQ, NoQ, IF b THEN 1 ELSE 0,
           SetAntigenicPresenceOf(ab, b)) /\ Free

NoCall == [ op |-> "none", dt |-> NoQ, q |-> NoQ, n |-> 0 ]

Init ==
  /\ ab \in { CreateAntibody(t, 1, k) : t \in Types, k \in CapacityArgs }
  /\ params = Moderate
  /\ pre = ab
  /\ call = NoCall
  /\ sum = 0
  /\ cleared = FALSE
  /\ pc = "free"
  /\ ar = NoArchive
  /\ copy = ab

Next ==
  \/ Decay
  \/ UpdateAntibodyCapacity
  \/ UpdateAntibodyCapacityRate
  \/ UpdateAntibodyConcentration
  \/ ResetCounters
  \/ IncreaseAntigenCount
  \/ SetAntigenicPresence

Spec == Init /\ [][Next]_vars

\* ---------------------------------------------- one call on any lineage
\* Each kinetics operation applied once to a lineage in any state the
\* setters and Initialize can leave it in.
LineageStates ==
  { [ m_antibody_type          |-> t,
      m_antibody_variant       |-> 1,
      m_antibody_capacity      |-> k,
      m_antibody_concentration |-> c,
      m_antigen_count          |-> n,
      m_antigen_present        |-> n > 0 ] :
      t \in Types, k \in CapacityGrid, c \in ConcentrationGrid, n \in 0 .. MaxCount }

InitKinetics ==
  /\ ab \in LineageStates
  /\ params \in { Moderate, FastMemoryDecay, FastGrowth }
  /\ pre = ab
  /\ call = NoCall
  /\ sum = ab.m_antigen_count
  /\ cleared = FALSE
  /\ pc = "free"
  /\ ar = NoArchive
  /\ copy = ab

FirstCall == call.op = "none"

OneDecay == FirstCall /\ DecayWith(DtSet)

OneUpdateAntibodyCapacity == FirstCall /\ UpdateAntibodyCapacityWith(DtSet)

OneUpdateAntibodyCapacityRate == FirstCall /\ UpdateAntibodyCapacityRateWith(DtSet)

OneUpdateAntibodyConcentration == FirstCall /\ UpdateAntibodyConcentrationWith(DtSet)

NextKinetics ==
  \/ OneDecay
  \/ OneUpdateAntibodyCapacity
  \/ OneUpdateAntibodyCapacityRate
  \/ OneUpdateAntibodyConcentration

SpecKinetics == InitKinetics /\ [][NextKinetics]_vars

\* ------------------------------------------------ the host's update cycle
\* antigen increase -> decay -> capacity growth -> concentration update ->
\* counters reset, with one dt per cycle and no setter in between
InitCycle ==
  /\ ab \in { Initialize(t, 1, kc[1], kc[2]) :
                t \in Types,
                kc \in { x \in CapacityArgs \X ConcentrationArgs : x[2] <= x[1] } }
  /\ params \in { Moderate, FastMemoryDecay }
  /\ pre = ab
  /\ call = NoCall
  /\ sum = 0
  /\ cleared = FALSE
  /\ pc = "IncreaseAntigenCount"
  /\ ar = NoArchive
  /\ copy = ab

CycleIncreaseAntigenCount ==
  /\ pc = "IncreaseAntigenCount"
  /\ \E dt \in DtSet, n \in AntigenArgs :
       /\ ab.m_antigen_count + n <= MaxCount
       /\ Record("IncreaseAntigenCount", dt, NoQ, n, IncreaseAntigenCountOf(ab, n))
  /\ pc' = "Decay"
  /\ UNCHANGED << ar, copy >>

CycleDecay ==
  /\ pc = "Decay"
  /\ Record("Decay", call.dt, NoQ, 0, DecayOf(ab, call.dt, params))
  /\ pc' = "UpdateAntibodyCapacity"
  /\ UNCHANGED << ar, copy >>

CycleUpdateAntibodyCapacity ==
  /\ pc = "UpdateAntibodyCapacity"
  /\ \E inv_uL_blood \in InvBloodSet :
       Record("UpdateAntibodyCapacity", call.dt, inv_uL_blood, 0,
              UpdateAntibodyCapacityOf(ab, call.dt, params, inv_uL_blood))
  /\ pc' = "UpdateAntibodyConcentration"
  /\ UNCHANGED << ar, copy >>

CycleUpdateAntibodyCapacityRate ==
  /\ pc = "UpdateAntibodyCapacity"
  /\ \E growth_rate \in GrowthRateSet :
       Record("UpdateAntibodyCapacityRate", call.dt, growth_rate, 0,
              UpdateAntibodyCapacity2(ab, call.dt, growth_rate))
  /\ pc' = "UpdateAntibodyConcentration"
  /\ UNCHANGED << ar, copy >>

CycleUpdateAntibodyConcentration ==
  /\ pc = "UpdateAntibodyConcentration"
  /\ Record("UpdateAntibodyConcentration", call.dt, NoQ, 0,
            UpdateAntibodyConcentrationOf(ab, call.dt, params))
  /\ pc' = "ResetCounters"
  /\ UNCHANGED << ar, copy >>

CycleResetCounters ==
  /\ pc = "ResetCounters"
  /\ Record("ResetCounters", call.dt, NoQ, 0, ResetCountersOf(ab))
  /\ pc' = "IncreaseAntigenCount"
  /\ UNCHANGED << ar, copy >>

NextCycle ==
  \/ CycleIncreaseAntigenCount
  \/ CycleDecay
  \/ CycleUpdateAntibodyCapacity
  \/ CycleUpdateAntibodyCapacityRate
  \/ CycleUpdateAntibodyConcentration
  \/ CycleResetCounters

SpecCycle == InitCycle /\ [][NextCycle]_vars

\* ------------------------------------------------- export then import
InitSerial ==
  /\ ab \in { [ Initialize(t, v, k, c) EXCEPT !.m_antigen_count = n, !.m_antigen_present = b ] :
                t \in Types, v \in Variants, k \in CapacityArgs, c \in ConcentrationArgs,
                n \in 0 .. MaxCount, b \in BOOLEAN }
  /\ params = Moderate
  /\ pre = ab
  /\ call = NoCall
  /\ sum = ab.m_antigen_count
  /\ cleared = FALSE
  /\ pc = "free"
  /\ ar = NoArchive
  /\ copy = ab

Export(op, record) ==
  /\ call.op = "none"
  /\ ar' = record
  /\ call' = [ call EXCEPT !.op = op ]
  /\ UNCHANGED << ab, params, pre, sum, cleared, pc, copy >>

Import(op, result) ==
  /\ copy' = result
  /\ call' = [ call EXCEPT !.op = op ]
  /\ UNCHANGED << ab, params, pre, sum, cleared, pc, ar >>

DoJSerialize == Export("JSerialize", JSerialize(ab))

DoJDeserialize ==
  /\ call.op = "JSerialize"
  /\ \E fresh \in FreshLineages : Import("JDeserialize", JDeserialize(fresh, ar))

DoBoostSave == Export("save", BoostSave(ab))

DoBoostLoad ==
  /\ call.op = "save"
  /\ \E fresh \in FreshLineages : Import("load", BoostLoad(fresh, ar))

NextSerial ==
  \/ DoJSerialize
  \/ DoJDeserialize
  \/ DoBoostSave
  \/ DoBoostLoad

SpecSerial == InitSerial /\ [][NextSerial]_vars

\* ============================================================ properties
One == Q(1, 1)

\* the call took the Major variant's rapid-proliferation branch
MajorRapid ==
  /\ call.op = "UpdateAntibodyCapacity"
  /\ pre.m_antibody_type = "PfEMP1_major"
  /\ GtQ(pre.m_antibody_capacity, B_CELL_PROLIFERATION_THRESHOLD)

GrowthCall ==
  /\ call.op \in { "UpdateAntibodyCapacity", "UpdateAntibodyCapacityRate" }
  /\ 0 <= pre.m_antibody_capacity
  /\ pre.m_antibody_capacity <= SCALE
  /\ ~MajorRapid

InUnitRange(k) == 0 <= k /\ k <= SCALE

\* C1 as stated: after either overload of UpdateAntibodyCapacity on a lineage
\* with 0 <= capacity <= 1, 0 <= capacity <= 1 again, the Major variant's
\* rapid-proliferation branch excepted.
C1_CapacityInUnitRange ==
  GrowthCall => InUnitRange(ab.m_antibody_capacity)

\* the base three-argument law ran with a growth rate above 1 and 0.33 * dt above 1
BaseOvershoot ==
  /\ call.op = "UpdateAntibodyCapacity"
  /\ pre.m_antibody_type \in { "CSP", "MSP1" }
  /\ ~QLe(params.MSP1_antibody_growthrate, One)
  /\ ~QLe(QMul(B_CELL_PROLIFERATION_CONSTANT, call.dt), One)

\* C1 amended: the same, where for the base three-argument law (CSP, MSP)
\* MSP1_antibody_growthrate <= 1 or 0.33 * dt <= 1 is required as well.
C1_CapacityInUnitRangeAmended ==
  (GrowthCall /\ ~BaseOvershoot) => InUnitRange(ab.m_antibody_capacity)

\* the base law with a growth rate above 1 pushed capacity past 1 and the clamp cut it
C1_Witness ==
  /\ GrowthCall
  /\ ~BaseOvershoot
  /\ call.op = "UpdateAntibodyCapacity"
  /\ pre.m_antibody_type = "MSP1"
  /\ ~QLe(params.MSP1_antibody_growthrate, One)
  /\ pre.m_antibody_capacity < SCALE
  /\ ab.m_antibody_capacity = SCALE

\* C2: after UpdateAntibodyConcentration on a lineage that is not CSP,
\* concentration <= capacity, whatever the state before the call.
C2_ConcentrationAtMostCapacity ==
  (call.op = "UpdateAntibodyConcentration" /\ ab.m_antibody_type # "CSP")
    => ab.m_antibody_concentration <= ab.m_antibody_capacity

\* a concentration above capacity was brought down to it
C2_Witness ==
  /\ call.op = "UpdateAntibodyConcentration"
  /\ ab.m_antibody_type # "CSP"
  /\ pre.m_antibody_concentration > pre.m_antibody_capacity
  /\ ab.m_antibody_concentration = ab.m_antibody_capacity

\* concentration * (1 - dt / antibody_csp_decay_days), as a float
CSPBoostedDecay(c, dt, p) ==
  LET days == p.antibody_csp_decay_days
  IN  Round(c * (days.n * dt.d - dt.n * days.d), days.n * dt.d)

\* C3: on a CSP lineage with concentration > capacity, Decay and
\* UpdateAntibodyConcentration set concentration to
\* concentration * (1 - dt / antibody_csp_decay_days) and change nothing else;
\* with concentration <= capacity they do what the base operation does.
C3_CSPOverride ==
  (pre.m_antibody_type = "CSP" /\ call.op \in { "Decay", "UpdateAntibodyConcentration" })
    => IF pre.m_antibody_concentration > pre.m_antibody_capacity
       THEN ab = [ pre EXCEPT !.m_antibody_concentration =
                                CSPBoostedDecay(pre.m_antibody_concentration, call.dt, params) ]
       ELSE ab = IF call.op = "Decay"
                 THEN BaseDecay(pre, call.dt, params)
                 ELSE BaseUpdateAntibodyConcentration(pre, call.dt, params)

\* a boosted CSP concentration decayed and stayed above the capacity
C3_Witness ==
  /\ pre.m_antibody_type = "CSP"
  /\ call.op = "Decay"
  /\ pre.m_antibody_concentration > pre.m_antibody_capacity
  /\ ab.m_antibody_concentration < pre.m_antibody_concentration
  /\ ab.m_antibody_concentration > ab.m_antibody_capacity
  /\ pre.m_antibody_capacity > params.memory_level

SixFields(a) ==
  << a.m_antibody_capacity, a.m_antibody_concentration, a.m_antigen_count,
     a.m_antigen_present, a.m_antibody_type, a.m_antibody_variant >>

\* C4: export then import into a fresh lineage reproduces the six fields,
\* for the JSON pair and for the archive pair.
C4_RoundTrip ==
  call.op \in { "JDeserialize", "load" } => SixFields(copy) = SixFields(ab)

\* C5: antigen_count is the sum of the positive arguments since the last
\* ResetCounters and is never negative; IncreaseAntigenCount(n) with n <= 0
\* changes no field; after ResetCounters the count is 0 and the flag false.
C5_AntigenBookkeeping ==
  /\ ab.m_antigen_count = sum
  /\ ab.m_antigen_count >= 0
  /\ (call.op = "IncreaseAntigenCount" /\ call.n <= 0) => ab = pre
  /\ call.op = "ResetCounters" => (ab.m_antigen_count = 0 /\ ~ab.m_antigen_present)

\* a negative argument arrived after counts had been recorded
C5_Witness ==
  /\ call.op = "IncreaseAntigenCount"
  /\ call.n < 0
  /\ pre.m_antigen_count = MaxCount
  /\ ab.m_antigen_count = MaxCount

\* C6 as stated: antigen_count > 0 implies antigen_present.
C6_CountImpliesPresence ==
  ab.m_antigen_count > 0 => ab.m_antigen_present

\* C6 amended: antigen_count > 0 implies antigen_present unless
\* SetAntigenicPresence(false) was called after the last positive count.
C6_CountImpliesPresenceAmended ==
  (ab.m_antigen_count > 0 /\ ~cleared) => ab.m_antigen_present

\* a positive count raised the flag again after it had been cleared
C6_Witness ==
  /\ call.op = "IncreaseAntigenCount"
  /\ call.n > 0
  /\ pre.m_antigen_count > 0
  /\ ~pre.m_antigen_present
  /\ ab.m_antigen_present

CycleEnd == pc = "IncreaseAntigenCount"

\* C7 as stated: with concentration <= capacity at the start, concentration <=
\* capacity at the end of every update cycle, for every variant.
C7_CycleKeepsBound ==
  CycleEnd => ab.m_antibody_concentration <= ab.m_antibody_capacity

\* C7 amended: the same for the variants that are not CSP.
C7_CycleKeepsBoundAmended ==
  (CycleEnd /\ ab.m_antibody_type # "CSP")
    => ab.m_antibody_concentration <= ab.m_antibody_capacity

\* a full cycle ended with the concentration released up to the capacity
C7_Witness ==
  /\ CycleEnd
  /\ call.op = "ResetCounters"
  /\ ab.m_antibody_type # "CSP"
  /\ ab.m_antibody_concentration = ab.m_antibody_capacity
  /\ ab.m_antibody_concentration > 0

\* C8: the Major variant clamps only below the threshold: from 0.4 < capacity
\* < 1 with 0.33 * dt > 1 its three-argument update leaves capacity > 1, and
\* the Minor variant's leaves capacity <= 1 from every state.
C8_MajorClampsOnlyBelowThreshold ==
  call.op = "UpdateAntibodyCapacity" =>
    /\ pre.m_antibody_type = "PfEMP1_minor" => ab.m_antibody_capacity <= SCALE
    /\ (pre.m_antibody_type = "PfEMP1_major" /\ ~MajorRapid) => ab.m_antibody_capacity <= SCALE
    /\ ( /\ MajorRapid
         /\ pre.m_antibody_capacity < SCALE
         /\ ~QLe(QMul(B_CELL_PROLIFERATION_CONSTANT, call.dt), One) )
       => ab.m_antibody_capacity > SCALE

\* a Major lineage left the call above 1
C8_Witness ==
  /\ MajorRapid
  /\ pre.m_antibody_capacity <= SCALE
  /\ ab.m_antibody_capacity > SCALE

\* growth_rate * dt * (1 - capacity) * sigmoid(c50, antigen_count * inv_uL_blood + min_stimulation)
\* added to the capacity, as a float
SigmoidGrowth(a, dt, p, inv_uL_blood, growth_rate) ==
  LET c50 == p.antibody_stimulation_c50
      x   == QAdd(Q(a.m_antigen_count * inv_uL_blood.n, inv_uL_blood.d),
                  QMul(c50, p.minimum_adapted_response))
      s   == Q(x.n * c50.d, x.n * c50.d + c50.n * x.d)
      f   == QMul(QMul(growth_rate, dt), s)
  IN  Round(a.m_antibody_capacity * f.d + (SCALE - a.m_antibody_capacity) * f.n, f.d)

\* (1 - capacity) * 0.33 * dt added to the capacity, as a float
RapidGrowth(a, dt) ==
  Round(a.m_antibody_capacity * 100 * dt.d + (SCALE - a.m_antibody_capacity) * 33 * dt.n,
        100 * dt.d)

BaseDecayCall ==
  /\ call.op = "Decay"
  /\ \/ pre.m_antibody_type # "CSP"
     \/ pre.m_antibody_concentration <= pre.m_antibody_capacity
  /\ QLe(QMul(params.hyperimmune_decay_rate, call.dt), One)
  /\ QLe(QMul(TWENTY_DAY_DECAY_CONSTANT, call.dt), One)

\* C10: with hyperimmune_decay_rate * dt <= 1 and 0.05 * dt <= 1, base Decay
\* keeps capacity >= memory_level when it was above, leaves it alone when it
\* was not, leaves a concentration <= 1e-7 alone, keeps a non-negative
\* concentration non-negative, raises neither, and leaves the counters alone.
C10_DecayNeverUndershoots ==
  BaseDecayCall =>
    /\ pre.m_antibody_capacity > params.memory_level
         => ab.m_antibody_capacity >= params.memory_level
    /\ pre.m_antibody_capacity <= params.memory_level
         => ab.m_antibody_capacity = pre.m_antibody_capacity
    /\ ~GtQ(pre.m_antibody_concentration, NON_TRIVIAL_ANTIBODY_THRESHOLD)
         => ab.m_antibody_concentration = pre.m_antibody_concentration
    /\ pre.m_antibody_concentration >= 0 => ab.m_antibody_concentration >= 0
    /\ ab.m_antibody_capacity <= pre.m_antibody_capacity
    /\ ab.m_antibody_concentration <= pre.m_antibody_concentration
    /\ ab.m_antigen_count = pre.m_antigen_count
    /\ ab.m_antigen_present = pre.m_antigen_present

\* capacity relaxed all the way to memory_level and concentration decayed
C10_Witness ==
  /\ BaseDecayCall
  /\ pre.m_antibody_capacity > params.memory_level
  /\ ab.m_antibody_capacity < pre.m_antibody_capacity
  /\ ab.m_antibody_concentration < pre.m_antibody_concentration
  /\ ab.m_antibody_concentration > 0

====
